---- MODULE Spec2Model ----
(***************************************************************************)
(* Model of src/evaluate_tags.py: the overlap calculator                   *)
(* (calculate_overlap), the per-category greedy matcher                    *)
(* (count_correct_predictions) and the aggregation loop of main.           *)
(*                                                                         *)
(* Python floats are modelled as exact rationals in lowest terms           *)
(* (records [raised, num, den]); for the small integer coordinates used    *)
(* here, two quotients are equal as floats exactly when they are equal as  *)
(* rationals, and q >= 0.5 holds for the float exactly when it holds for   *)
(* the rational.  A ZeroDivisionError is the value with raised = TRUE.     *)
(* List indices are 1-based here and 0-based in the source.                *)
(***************************************************************************)
EXTENDS Integers, Sequences, FiniteSets, TLC

VARIABLES
    pc,                  \* position in the function under analysis
    box1, box2,          \* arguments of calculate_overlap
    overlap,             \* value returned by calculate_overlap
    ground_truth_boxes,  \* arguments of count_correct_predictions
    predicted_boxes,
    element_type,
    gt_boxes,            \* locals of count_correct_predictions
    pred_boxes,
    correct_count,
    used_gt_boxes,
    p,                   \* index of pred_box in pred_boxes (outer loop)
    i,                   \* index of gt_box in gt_boxes (inner loop)
    matched,             \* history: <<p, i>> for every accepted match, in order
    json_files,          \* main: the files to evaluate, in listing order
    fileIdx,             \* main: index of the file being processed
    results,             \* main: running totals per element type
    metrics              \* main: precision / recall / f1 per element type

vars == <<pc, box1, box2, overlap, ground_truth_boxes, predicted_boxes,
          element_type, gt_boxes, pred_boxes, correct_count, used_gt_boxes,
          p, i, matched, json_files, fileIdx, results, metrics>>

overlapVars == <<box1, box2, overlap>>
matchVars == <<ground_truth_boxes, predicted_boxes, element_type, gt_boxes,
               pred_boxes, correct_count, used_gt_boxes, p, i, matched>>
mainVars == <<json_files, fileIdx, results, metrics>>

----------------------------------------------------------------------------
(* Bounds *)

MaxCoord == 2

MaxBoxes == 4

MaxFiles == 3

----------------------------------------------------------------------------
(* Numbers *)

Max(a, b) == IF a >= b THEN a ELSE b

Min(a, b) == IF a <= b THEN a ELSE b

Abs(a) == IF a < 0 THEN -a ELSE a

RECURSIVE GCD(_, _)
GCD(a, b) == IF b = 0 THEN a ELSE GCD(b, a % b)

\* The float n / d, in lowest terms with a positive denominator.
Float(n, d) ==
    LET g == GCD(Abs(n), Abs(d))
        s == IF d < 0 THEN -1 ELSE 1
    IN  [raised |-> FALSE, num |-> (s * n) \div g, den |-> (s * d) \div g]

ZeroDivisionError == [raised |-> TRUE, num |-> 0, den |-> 0]

\* Python's true division x / y on floats (or ints).
Divide(x, y) ==
    IF x.raised \/ y.raised THEN ZeroDivisionError
    ELSE IF y.num = 0 THEN ZeroDivisionError
    ELSE Float(x.num * y.den, x.den * y.num)

Times(x, y) ==
    IF x.raised \/ y.raised THEN ZeroDivisionError
    ELSE Float(x.num * y.num, x.den * y.den)

Plus(x, y) ==
    IF x.raised \/ y.raised THEN ZeroDivisionError
    ELSE Float(x.num * y.den + y.num * x.den, x.den * y.den)

Num(n) == Float(n, 1)

Zero == Num(0)

One == Num(1)

Half == Float(1, 2)

\* x >= y and x > y on floats
GreaterEq(x, y) == x.num * y.den >= y.num * x.den

Greater(x, y) == x.num * y.den > y.num * x.den

NoValue == [raised |-> FALSE, num |-> 0, den |-> 0]

----------------------------------------------------------------------------
(* Boxes *)

Box(t, a, b, c, d) == [tag |-> t, x1 |-> a, y1 |-> b, x2 |-> c, y2 |-> d]

Coords == 0 .. MaxCoord

\* every box over the coordinate range: proper, degenerate and inverted
AllBoxes == { Box("button", a, b, c, d) : a \in Coords, b \in Coords,
                                           c \in Coords, d \in Coords }

----------------------------------------------------------------------------
(* calculate_overlap *)

calculate_overlap_no_check(b1, b2) ==
    LET overlap_left == Max(b1.x1, b2.x1)
        overlap_top == Max(b1.y1, b2.y1)
        overlap_right == Min(b1.x2, b2.x2)
        overlap_bottom == Min(b1.y2, b2.y2)
        overlap_area == (overlap_right - overlap_left) * (overlap_bottom - overlap_top)
        area1 == (b1.x2 - b1.x1) * (b1.y2 - b1.y1)
        area2 == (b2.x2 - b2.x1) * (b2.y2 - b2.y1)
        total_area == area1 + area2 - overlap_area
    IN  Divide(Num(overlap_area), Num(total_area))

calculate_overlap_no_subtract(b1, b2) ==
    LET overlap_left == Max(b1.x1, b2.x1)
        overlap_top == Max(b1.y1, b2.y1)
        overlap_right == Min(b1.x2, b2.x2)
        overlap_bottom == Min(b1.y2, b2.y2)
        overlap_area == (overlap_right - overlap_left) * (overlap_bottom - overlap_top)
        area1 == (b1.x2 - b1.x1) * (b1.y2 - b1.y1)
        area2 == (b2.x2 - b2.x1) * (b2.y2 - b2.y1)
        total_area == area1 + area2
    IN  IF overlap_right <= overlap_left \/ overlap_bottom <= overlap_top
        THEN Zero
        ELSE IF total_area > 0
             THEN Divide(Num(overlap_area), Num(total_area))
             ELSE Zero

calculate_overlap_area1_twice(b1, b2) ==
    LET overlap_left == Max(b1.x1, b2.x1)
        overlap_top == Max(b1.y1, b2.y1)
        overlap_right == Min(b1.x2, b2.x2)
        overlap_bottom == Min(b1.y2, b2.y2)
        overlap_area == (overlap_right - overlap_left) * (overlap_bottom - overlap_top)
        area1 == (b1.x2 - b1.x1) * (b1.y2 - b1.y1)
        area2 == (b1.x2 - b1.x1) * (b1.y2 - b1.y1)
        total_area == area1 + area2 - overlap_area
    IN  IF overlap_right <= overlap_left \/ overlap_bottom <= overlap_top
        THEN Zero
        ELSE IF total_area > 0
             THEN Divide(Num(overlap_area), Num(total_area))
             ELSE Zero

calculate_overlap(b1, b2) ==
    LET overlap_left == Max(b1.x1, b2.x1)
        overlap_top == Max(b1.y1, b2.y1)
        overlap_right == Min(b1.x2, b2.x2)
        overlap_bottom == Min(b1.y2, b2.y2)
        overlap_area == (overlap_right - overlap_left) * (overlap_bottom - overlap_top)
        area1 == (b1.x2 - b1.x1) * (b1.y2 - b1.y1)
        area2 == (b2.x2 - b2.x1) * (b2.y2 - b2.y1)
        total_area == area1 + area2 - overlap_area
    IN  IF overlap_right <= overlap_left \/ overlap_bottom <= overlap_top
        THEN Zero
        ELSE IF total_area > 0
             THEN Divide(Num(overlap_area), Num(total_area))
             ELSE Zero

----------------------------------------------------------------------------
(* Specification of one call of calculate_overlap on arbitrary boxes *)

IdleMatch ==
    /\ ground_truth_boxes = <<>>
    /\ predicted_boxes = <<>>
    /\ element_type = "button"
    /\ gt_boxes = <<>>
    /\ pred_boxes = <<>>
    /\ correct_count = 0
    /\ used_gt_boxes = <<>>
    /\ p = 0
    /\ i = 0
    /\ matched = <<>>

IdleMain ==
    /\ json_files = <<>>
    /\ fileIdx = 0
    /\ results = <<>>
    /\ metrics = <<>>

IdleOverlap ==
    /\ box1 = Box("button", 0, 0, 0, 0)
    /\ box2 = Box("button", 0, 0, 0, 0)
    /\ overlap = NoValue

InitOverlap ==
    /\ pc = "overlap_call"
    /\ box1 \in AllBoxes
    /\ box2 \in AllBoxes
    /\ overlap = NoValue
    /\ IdleMatch
    /\ IdleMain

CalculateOverlap ==
    /\ pc = "overlap_call"
    /\ overlap' = calculate_overlap(box1, box2)
    /\ pc' = "overlap_return"
    /\ UNCHANGED <<box1, box2, matchVars, mainVars>>

NextOverlap == CalculateOverlap

SpecOverlap == InitOverlap /\ [][NextOverlap]_vars

----------------------------------------------------------------------------
(* count_correct_predictions *)

\* str.lower() on the tags that occur
Lower(s) ==
    CASE s = "Button" -> "button"
      [] s = "BUTTON" -> "button"
      [] s = "Input" -> "input"
      [] OTHER -> s

\* the loops that keep the boxes of one element type, in their order
RECURSIVE FilterByType(_, _)
FilterByType(boxes, etype) ==
    IF boxes = <<>> THEN <<>>
    ELSE LET rest == FilterByType(Tail(boxes), etype)
         IN  IF Lower(Head(boxes).tag) = Lower(etype)
             THEN <<Head(boxes)>> \o rest
             ELSE rest

InSeq(x, s) == \E k \in 1 .. Len(s) : s[k] = x

IsUsed_never(idx, used) == FALSE

\* if i in used_gt_boxes
IsUsed(idx, used) == InSeq(idx, used)

Qualifies_strict(ov) == Greater(ov, Half)

\* if overlap >= 0.5
Qualifies(ov) == GreaterEq(ov, Half)

MarkUsed_forgot(used, idx) == used

\* used_gt_boxes.append(i)
MarkUsed(used, idx) == Append(used, idx)

\* the geometries the matcher is exercised on:
\* IoU(BoxA, BoxB) = 1/2, IoU(BoxB, BoxC) = 1/2, IoU(BoxA, BoxC) = 1/4
MatchGeometry == { <<0, 0, 2, 2>>, <<0, 0, 2, 1>>, <<0, 0, 1, 1>> }

MatchTags == { "Button", "input" }

\* a box inverted on both axes: (x2-x1)*(y2-y1) = 4 although x2 < x1, y2 < y1
InvertedBox == Box("BUTTON", 2, 2, 0, 0)

MatchBoxes ==
    { Box(t, g[1], g[2], g[3], g[4]) : t \in MatchTags, g \in MatchGeometry }
        \cup { InvertedBox }

SeqsUpTo(S, n) == UNION { [1 .. k -> S] : k \in 0 .. n }

\* element_types in main
element_types == <<"button", "input", "radio", "dropdown">>

ElementTypes == { element_types[k] : k \in 1 .. Len(element_types) }

InitMatch ==
    /\ pc = "match_call"
    /\ ground_truth_boxes \in SeqsUpTo(MatchBoxes, MaxBoxes)
    /\ predicted_boxes \in SeqsUpTo(MatchBoxes, MaxBoxes - Len(ground_truth_boxes))
    /\ element_type \in ElementTypes
    /\ gt_boxes = <<>>
    /\ pred_boxes = <<>>
    /\ correct_count = 0
    /\ used_gt_boxes = <<>>
    /\ p = 0
    /\ i = 0
    /\ matched = <<>>
    /\ IdleOverlap
    /\ IdleMain

\* lines 39-52: filter both lists, reset the counters
FilterBoxes ==
    /\ pc = "match_call"
    /\ gt_boxes' = FilterByType(ground_truth_boxes, element_type)
    /\ pred_boxes' = FilterByType(predicted_boxes, element_type)
    /\ correct_count' = 0
    /\ used_gt_boxes' = <<>>
    /\ pc' = "pred_loop"
    /\ UNCHANGED <<ground_truth_boxes, predicted_boxes, element_type, p, i,
                   matched, overlapVars, mainVars>>

\* line 54: take the next predicted box
NextPred ==
    /\ pc = "pred_loop"
    /\ p < Len(pred_boxes)
    /\ p' = p + 1
    /\ i' = 1
    /\ pc' = "gt_loop"
    /\ UNCHANGED <<ground_truth_boxes, predicted_boxes, element_type, gt_boxes,
                   pred_boxes, correct_count, used_gt_boxes, matched,
                   overlapVars, mainVars>>

\* line 55: the inner loop runs out of ground truth boxes
GtExhausted ==
    /\ pc = "gt_loop"
    /\ i > Len(gt_boxes)
    /\ pc' = "pred_loop"
    /\ UNCHANGED <<ground_truth_boxes, predicted_boxes, element_type, gt_boxes,
                   pred_boxes, correct_count, used_gt_boxes, p, i, matched,
                   overlapVars, mainVars>>

\* lines 57-58: skip a ground truth box that was already matched
SkipUsed ==
    /\ pc = "gt_loop"
    /\ i <= Len(gt_boxes)
    /\ IsUsed(i, used_gt_boxes)
    /\ i' = i + 1
    /\ UNCHANGED <<pc, ground_truth_boxes, predicted_boxes, element_type,
                   gt_boxes, pred_boxes, correct_count, used_gt_boxes, p,
                   matched, overlapVars, mainVars>>

\* lines 61-65: compute the overlap and accept or go on
CheckOverlap ==
    /\ pc = "gt_loop"
    /\ i <= Len(gt_boxes)
    /\ ~IsUsed(i, used_gt_boxes)
    /\ LET ov == calculate_overlap(gt_boxes[i], pred_boxes[p])
       IN  IF ov.raised
           THEN /\ pc' = "raised"
                /\ UNCHANGED <<correct_count, used_gt_boxes, matched, i>>
           ELSE IF Qualifies(ov)
           THEN /\ correct_count' = correct_count + 1
                /\ used_gt_boxes' = MarkUsed(used_gt_boxes, i)
                /\ matched' = Append(matched, <<p, i>>)
                /\ pc' = "pred_loop"
                /\ UNCHANGED i
           ELSE /\ i' = i + 1
                /\ UNCHANGED <<pc, correct_count, used_gt_boxes, matched>>
    /\ UNCHANGED <<ground_truth_boxes, predicted_boxes, element_type, gt_boxes,
                   pred_boxes, p, overlapVars, mainVars>>

\* line 67: return len(gt_boxes), len(pred_boxes), correct_count
ReturnCounts ==
    /\ pc = "pred_loop"
    /\ p >= Len(pred_boxes)
    /\ pc' = "match_return"
    /\ UNCHANGED <<matchVars, overlapVars, mainVars>>

NextMatch ==
    \/ FilterBoxes
    \/ NextPred
    \/ GtExhausted
    \/ SkipUsed
    \/ CheckOverlap
    \/ ReturnCounts

SpecMatch == InitMatch /\ [][NextMatch]_vars

----------------------------------------------------------------------------
(* count_correct_predictions as a function, as main calls it *)

\* lines 55-62: index of the first unused ground truth box, from idx on,
\* that overlaps pred_box enough; 0 when the inner loop ends without a break
RECURSIVE ScanGt(_, _, _, _)
ScanGt(gts, used, pred_box, idx) ==
    IF idx > Len(gts) THEN 0
    ELSE IF IsUsed(idx, used) THEN ScanGt(gts, used, pred_box, idx + 1)
    ELSE IF Qualifies(calculate_overlap(gts[idx], pred_box)) THEN idx
    ELSE ScanGt(gts, used, pred_box, idx + 1)

\* lines 54-65: the outer loop from predicted box k on
RECURSIVE ScanPreds(_, _, _, _, _)
ScanPreds(gts, preds, k, used, count) ==
    IF k > Len(preds) THEN count
    ELSE LET hit == ScanGt(gts, used, preds[k], 1)
         IN  IF hit = 0
             THEN ScanPreds(gts, preds, k + 1, used, count)
             ELSE ScanPreds(gts, preds, k + 1, MarkUsed(used, hit), count + 1)

count_correct_predictions(gtb, prb, etype) ==
    LET gts == FilterByType(gtb, etype)
        preds == FilterByType(prb, etype)
    IN  <<Len(gts), Len(preds), ScanPreds(gts, preds, 1, <<>>, 0)>>

----------------------------------------------------------------------------
(* main: the aggregation loop and the scores *)

BoxA(t) == Box(t, 0, 0, 2, 2)

BoxB(t) == Box(t, 0, 0, 2, 1)

BoxC(t) == Box(t, 0, 0, 1, 1)

File(hp, gtd, prd) ==
    [has_pred |-> hp, ground_truth_data |-> gtd, prediction_data |-> prd]

\* the files a ground truth folder is populated from; has_pred tells whether
\* the prediction folder holds a file of the same name
Corpus ==
    { File(TRUE, <<BoxA("Button"), BoxB("input")>>, <<BoxA("Button")>>),
      File(FALSE, <<BoxA("Button"), BoxB("input")>>, <<>>),
      File(TRUE, <<BoxA("Button"), BoxA("Button"), BoxB("input")>>, <<BoxC("Button")>>),
      File(TRUE, <<BoxB("input")>>, <<BoxC("input"), BoxA("Button")>>),
      File(TRUE, <<>>, <<>>) }

Totals(g, q, c) ==
    [ground_truth_total |-> g, predicted_total |-> q, correct_total |-> c]

Accumulate_assign(tot, counts) == Totals(counts[1], counts[2], counts[3])

\* lines 119-121: the three += of one element type
Accumulate(tot, counts) ==
    Totals(tot.ground_truth_total + counts[1],
           tot.predicted_total + counts[2],
           tot.correct_total + counts[3])

Precision_unguarded(tot) == Divide(Num(tot.correct_total), Num(tot.predicted_total))

\* lines 133-136
Precision(tot) ==
    IF tot.predicted_total > 0
    THEN Divide(Num(tot.correct_total), Num(tot.predicted_total))
    ELSE Zero

\* lines 138-141
Recall(tot) ==
    IF tot.ground_truth_total > 0
    THEN Divide(Num(tot.correct_total), Num(tot.ground_truth_total))
    ELSE Zero

\* lines 143-146
F1Score(precision, recall) ==
    LET sum == Plus(precision, recall)
    IN  IF sum.raised THEN ZeroDivisionError
        ELSE IF Greater(sum, Zero)
        THEN Divide(Times(Times(Num(2), precision), recall), sum)
        ELSE Zero

Scores(tot) ==
    [precision |-> Precision(tot),
     recall |-> Recall(tot),
     f1_score |-> F1Score(Precision(tot), Recall(tot))]

InitMain ==
    /\ pc = "file_loop"
    /\ json_files \in SeqsUpTo(Corpus, MaxFiles)
    /\ fileIdx = 0
    /\ results = [et \in ElementTypes |-> Totals(0, 0, 0)]
    /\ metrics = [et \in ElementTypes |->
                     [precision |-> NoValue, recall |-> NoValue, f1_score |-> NoValue]]
    /\ IdleOverlap
    /\ IdleMatch

SkipFile_break ==
    /\ pc = "file_loop"
    /\ fileIdx < Len(json_files)
    /\ ~json_files[fileIdx + 1].has_pred
    /\ fileIdx' = Len(json_files)
    /\ UNCHANGED <<pc, json_files, results, metrics, overlapVars, matchVars>>

\* lines 99-106: a file without a prediction file is skipped
SkipFile ==
    /\ pc = "file_loop"
    /\ fileIdx < Len(json_files)
    /\ ~json_files[fileIdx + 1].has_pred
    /\ fileIdx' = fileIdx + 1
    /\ UNCHANGED <<pc, json_files, results, metrics, overlapVars, matchVars>>

\* lines 99-121: a file pair is read and its counts are added to the totals
ProcessFile ==
    /\ pc = "file_loop"
    /\ fileIdx < Len(json_files)
    /\ json_files[fileIdx + 1].has_pred
    /\ LET ground_truth_data == json_files[fileIdx + 1].ground_truth_data
           prediction_data == json_files[fileIdx + 1].prediction_data
       IN  results' = [et \in ElementTypes |->
                          Accumulate(results[et],
                                     count_correct_predictions(ground_truth_data,
                                                               prediction_data, et))]
    /\ fileIdx' = fileIdx + 1
    /\ UNCHANGED <<pc, json_files, metrics, overlapVars, matchVars>>

\* lines 127-146: the scores of every element type
Report ==
    /\ pc = "file_loop"
    /\ fileIdx >= Len(json_files)
    /\ metrics' = [et \in ElementTypes |-> Scores(results[et])]
    /\ pc' = IF \E et \in ElementTypes :
                   \/ metrics'[et].precision.raised
                   \/ metrics'[et].recall.raised
                   \/ metrics'[et].f1_score.raised
             THEN "raised"
             ELSE "done"
    /\ UNCHANGED <<json_files, fileIdx, results, overlapVars, matchVars>>

NextMain ==
    \/ SkipFile
    \/ ProcessFile
    \/ Report

SpecMain == InitMain /\ [][NextMain]_vars

----------------------------------------------------------------------------
(* Properties of calculate_overlap, checked under SpecOverlap *)

Area(b) == (b.x2 - b.x1) * (b.y2 - b.y1)

Proper(b) == b.x2 > b.x1 /\ b.y2 > b.y1

Degenerate(b) == b.x2 <= b.x1 \/ b.y2 <= b.y1

EmptyIntersection(a, b) ==
    \/ Min(a.x2, b.x2) <= Max(a.x1, b.x1)
    \/ Min(a.y2, b.y2) <= Max(a.y1, b.y1)

\* C4 as stated: for any box whose area (x2-x1)*(y2-y1) is positive,
\* calculate_overlap(box, box) returns 1.0.
SelfOverlapOfPositiveAreaIsOne ==
    (pc = "overlap_return" /\ box1 = box2 /\ Area(box1) > 0) => overlap = One

\* C4 as amended: for any box with x2 > x1 and y2 > y1,
\* calculate_overlap(box, box) returns 1.0.
SelfOverlapOfProperBoxIsOne ==
    (pc = "overlap_return" /\ box1 = box2 /\ Proper(box1)) => overlap = One

SelfOverlapReturned ==
    /\ pc = "overlap_return"
    /\ box1 = box2
    /\ Proper(box1)
    /\ Area(box1) > 1
    /\ overlap = One

\* C5: calculate_overlap returns exactly 0.0 and does not raise whenever one
\* of the boxes is degenerate or inverted or the intersection rectangle is
\* empty or inverted, and it never divides by a union area of 0.
DegenerateOverlapIsZero ==
    pc = "overlap_return" =>
        /\ ~overlap.raised
        /\ overlap.den > 0
        /\ (Degenerate(box1) \/ Degenerate(box2) \/ EmptyIntersection(box1, box2))
               => overlap = Zero

InvertedPairReturned ==
    /\ pc = "overlap_return"
    /\ box1.x2 < box1.x1
    /\ box1.y2 < box1.y1
    /\ Proper(box2)
    /\ box2.x1 <= box1.x2
    /\ box2.x2 >= box1.x1
    /\ overlap = Zero

\* C9: calculate_overlap(A, B) = calculate_overlap(B, A) for all boxes A, B,
\* degenerate and inverted ones included.
OverlapSymmetric ==
    pc = "overlap_return" => overlap = calculate_overlap(box2, box1)

AsymmetricPairReturned ==
    /\ pc = "overlap_return"
    /\ Area(box1) # Area(box2)
    /\ Proper(box1)
    /\ Proper(box2)
    /\ overlap # Zero
    /\ overlap # One

----------------------------------------------------------------------------
(* Properties of the matching scan, checked under SpecMatch *)

Scanning == pc \in {"pred_loop", "gt_loop", "match_return"}

\* the overlap test of the matcher, stated on the rational value
Enough(g, q) ==
    LET ov == calculate_overlap(gt_boxes[g], pred_boxes[q])
    IN  ~ov.raised /\ 2 * ov.num >= ov.den

OfType(b) == Lower(b.tag) = element_type

\* ground truth indices consumed by the matches before the k-th one
UsedBefore(k) == { matched[j][2] : j \in 1 .. (k - 1) }

\* ground truth indices consumed by predicted boxes before the q-th one
UsedBeforePred(q) == { matched[j][2] : j \in { n \in 1 .. Len(matched) : matched[n][1] < q } }

Candidates(q, usedSet) == { g \in 1 .. Len(gt_boxes) : g \notin usedSet /\ Enough(g, q) }

MatchedPreds == { matched[k][1] : k \in 1 .. Len(matched) }

\* predicted boxes whose scan of the ground truth is over
Settled == IF pc = "gt_loop" THEN 1 .. (p - 1) ELSE 1 .. p

\* C1: first fit.  The predicted boxes of the category are processed in
\* their original order; each match takes the lowest-index unconsumed ground
\* truth box with overlap >= 0.5; a predicted box is left unmatched only when
\* no such box exists; correct_count is the number of matched predicted boxes.
FirstFitMatching ==
    Scanning =>
        /\ pred_boxes = SelectSeq(predicted_boxes, OfType)
        /\ gt_boxes = SelectSeq(ground_truth_boxes, OfType)
        /\ \A k \in 1 .. Len(matched) :
              /\ matched[k][1] \in Settled \cup {p}
              /\ k > 1 => matched[k - 1][1] < matched[k][1]
              /\ Candidates(matched[k][1], UsedBefore(k)) # {}
              /\ \A g \in Candidates(matched[k][1], UsedBefore(k)) : matched[k][2] <= g
              /\ matched[k][2] \in Candidates(matched[k][1], UsedBefore(k))
        /\ \A q \in Settled :
              q \notin MatchedPreds => Candidates(q, UsedBeforePred(q)) = {}
        /\ correct_count = Cardinality(MatchedPreds)
        /\ pc = "match_return" =>
              correct_count =
                  Cardinality({ q \in 1 .. Len(pred_boxes) :
                                   Candidates(q, UsedBeforePred(q)) # {} })

\* a match was accepted although a later unconsumed box overlaps more
FirstFitNotBestFit ==
    /\ pc = "match_return"
    /\ \E k \in 1 .. Len(matched) :
          \E g \in Candidates(matched[k][1], UsedBefore(k)) :
              /\ g > matched[k][2]
              /\ Greater(calculate_overlap(gt_boxes[g], pred_boxes[matched[k][1]]),
                         calculate_overlap(gt_boxes[matched[k][2]], pred_boxes[matched[k][1]]))

\* C2: the accepted matches are at most one-to-one: no ground truth index is
\* consumed twice and no predicted box consumes two ground truth boxes.
OneToOneMatching ==
    /\ Len(used_gt_boxes) = Len(matched)
    /\ \A k \in 1 .. Len(matched) : used_gt_boxes[k] = matched[k][2]
    /\ \A k, l \in 1 .. Len(used_gt_boxes) :
          k # l => used_gt_boxes[k] # used_gt_boxes[l]
    /\ \A k, l \in 1 .. Len(matched) :
          k # l => matched[k][1] # matched[l][1] /\ matched[k][2] # matched[l][2]

\* the second predicted box had to pass over a consumed box it overlaps
SecondMatchSkippedConsumed ==
    /\ pc = "match_return"
    /\ Len(matched) = 2
    /\ Enough(matched[1][2], matched[2][1])
    /\ matched[1][2] < matched[2][2]

CountOfType(boxes) == Cardinality({ k \in 1 .. Len(boxes) : OfType(boxes[k]) })

\* C3: at every step and on return,
\* correct_count <= min(gtCount, predCount) for the category.
CorrectAtMostMin ==
    /\ correct_count <= CountOfType(ground_truth_boxes)
    /\ correct_count <= CountOfType(predicted_boxes)
    /\ pc = "match_return" =>
          /\ Len(gt_boxes) = CountOfType(ground_truth_boxes)
          /\ Len(pred_boxes) = CountOfType(predicted_boxes)

\* two identical ground truth boxes, two predicted boxes overlapping both
TwoByTwoReturned ==
    /\ pc = "match_return"
    /\ Len(gt_boxes) = 2
    /\ Len(pred_boxes) = 2
    /\ gt_boxes[1] = gt_boxes[2]
    /\ Enough(1, 1) /\ Enough(1, 2)
    /\ correct_count = 2

\* C10: on return the matching is maximal: no unmatched predicted box has
\* an unconsumed ground truth box with overlap >= 0.5.
MatchingIsMaximal ==
    pc = "match_return" =>
        \A q \in 1 .. Len(pred_boxes) :
            q \notin MatchedPreds =>
                \A g \in 1 .. Len(gt_boxes) :
                    Enough(g, q) => InSeq(g, used_gt_boxes)

\* maximal but not maximum: one match, although two disjoint pairs exist
MaximalNotMaximum ==
    /\ pc = "match_return"
    /\ Len(pred_boxes) = 2
    /\ Len(gt_boxes) = 2
    /\ correct_count = 1
    /\ Enough(2, 1)
    /\ Enough(1, 2)

\* the scan is never aborted by an exception of calculate_overlap, inverted
\* boxes included
MatchNeverAborted == pc # "raised"

\* the step-wise scan and the function main calls agree
ScanAgreesWithFunction ==
    pc = "match_return" =>
        <<Len(gt_boxes), Len(pred_boxes), correct_count>> =
            count_correct_predictions(ground_truth_boxes, predicted_boxes, element_type)

----------------------------------------------------------------------------
(* Properties of the aggregation loop, checked under SpecMain *)

FileCounts(f, et) ==
    IF f.has_pred
    THEN count_correct_predictions(f.ground_truth_data, f.prediction_data, et)
    ELSE <<0, 0, 0>>

\* the sum of component c of the counts of the files with index in S, taken
\* in no particular order
RECURSIVE SumOver(_, _, _)
SumOver(S, et, c) ==
    IF S = {} THEN 0
    ELSE LET k == CHOOSE x \in S : TRUE
         IN  FileCounts(json_files[k], et)[c] + SumOver(S \ {k}, et, c)

TotalsOver(S) ==
    [et \in ElementTypes |-> Totals(SumOver(S, et, 1), SumOver(S, et, 2), SumOver(S, et, 3))]

\* C6: the final totals are a function of the collection of file pairs, not
\* of the order in which the loop visits them.
TotalsIndependentOfOrder ==
    pc = "done" => results = TotalsOver(1 .. Len(json_files))

\* two files with different button counts were aggregated
TwoDifferentFilesAggregated ==
    /\ pc = "done"
    /\ Len(json_files) >= 2
    /\ json_files[1].has_pred
    /\ json_files[Len(json_files)].has_pred
    /\ FileCounts(json_files[1], "button") # FileCounts(json_files[Len(json_files)], "button")
    /\ FileCounts(json_files[1], "button")[1] > 0
    /\ FileCounts(json_files[Len(json_files)], "button")[1] > 0

WithPrediction(S) == { k \in S : json_files[k].has_pred }

NoPredictionNext ==
    /\ pc = "file_loop"
    /\ fileIdx < Len(json_files)
    /\ ~json_files[fileIdx + 1].has_pred

\* C7: a ground truth file without a prediction file leaves every running
\* total unchanged, does not fail, and the loop goes on to the next file; the
\* totals are the sums over exactly the files that have a prediction.
MissingPredictionSkipped ==
    /\ [][NoPredictionNext =>
             /\ results' = results
             /\ fileIdx' = fileIdx + 1
             /\ pc' = "file_loop"]_vars
    /\ [](pc # "raised")
    /\ [](pc \in {"file_loop", "done"} =>
             results = TotalsOver(WithPrediction(1 .. fileIdx)))
    /\ [](pc = "done" => fileIdx = Len(json_files))

\* a file without a prediction was skipped and a later file was counted
SkippedThenCounted ==
    /\ pc = "done"
    /\ \E k, l \in 1 .. Len(json_files) :
          /\ k < l
          /\ ~json_files[k].has_pred
          /\ json_files[l].has_pred
          /\ FileCounts(json_files[l], "button")[3] > 0
          /\ results["button"].correct_total > 0

AbsentEverywhere(et) ==
    \A k \in 1 .. Len(json_files) :
        /\ \A n \in 1 .. Len(json_files[k].ground_truth_data) :
              Lower(json_files[k].ground_truth_data[n].tag) # et
        /\ \A n \in 1 .. Len(json_files[k].prediction_data) :
              Lower(json_files[k].prediction_data[n].tag) # et

\* C8: the scores are defined without a division by zero: precision is 0
\* when predicted_total is 0, recall is 0 when ground_truth_total is 0, f1 is
\* 0 when precision + recall is 0; a category absent from every file ends
\* with all totals 0 and all three scores 0.
ScoresDefined ==
    /\ pc # "raised"
    /\ pc = "done" =>
          \A et \in ElementTypes :
              /\ ~metrics[et].precision.raised
              /\ ~metrics[et].recall.raised
              /\ ~metrics[et].f1_score.raised
              /\ results[et].predicted_total = 0 => metrics[et].precision = Zero
              /\ results[et].ground_truth_total = 0 => metrics[et].recall = Zero
              /\ Plus(metrics[et].precision, metrics[et].recall) = Zero
                     => metrics[et].f1_score = Zero
              /\ AbsentEverywhere(et) =>
                     /\ results[et] = Totals(0, 0, 0)
                     /\ metrics[et].precision = Zero
                     /\ metrics[et].recall = Zero
                     /\ metrics[et].f1_score = Zero

\* every guard is exercised: a category without predictions, one without
\* ground truth (radio), one with boxes on both sides and no correct match
AllGuardsExercised ==
    /\ pc = "done"
    /\ Len(json_files) > 0
    /\ AbsentEverywhere("radio")
    /\ \E et \in ElementTypes :
          /\ results[et].predicted_total = 0
          /\ results[et].ground_truth_total > 0
    /\ \E et \in ElementTypes :
          /\ results[et].predicted_total > 0
          /\ results[et].ground_truth_total > 0
          /\ results[et].correct_total = 0

====
